---- MODULE Spec2Model ----
(***************************************************************************)
(* Model of the digitalsitepro backend (src/model/userSchema.js): an       *)
(* Express application whose API routes are registered by run() once       *)
(* client.connect() has resolved, over three MongoDB collections.          *)
(*                                                                         *)
(* A document is a record with a fixed set of fields; a field the stored   *)
(* JSON document does not carry holds Absent.  A collection is the         *)
(* sequence of its documents in natural (insertion) order, which is the    *)
(* order find().toArray() returns and the order findOne() searches.        *)
(*                                                                         *)
(* Lines 1-11 of the file declare a mongoose schema no route uses; the     *)
(* server is the Express application of lines 13-338, modelled here.       *)
(***************************************************************************)
EXTENDS Naturals, Sequences, FiniteSets

VARIABLES
    dbState,               \* "idle" | "connecting" | "connected" | "failed": client.connect()
    listening,             \* app.listen() has been called
    usersCollection,       \* Seq of user documents
    testimonialCollection, \* Seq of testimonial documents
    proposalsCollection,   \* Seq of proposal documents
    res                    \* the response to the last request

vars == <<dbState, listening, usersCollection, testimonialCollection,
          proposalsCollection, res>>

collections == <<usersCollection, testimonialCollection, proposalsCollection>>

(***************************************************************************)
(* Bounds of the model: the number of documents a collection may hold.     *)
(***************************************************************************)
MaxUsers == 2
MaxTestimonials == 2
MaxProposals == 1

(***************************************************************************)
(* Values.                                                                 *)
(***************************************************************************)
Absent == "undefined"

\* JavaScript truthiness of a field value: a missing field and "" are falsy.
Truthy(v) == v # Absent /\ v # ""

Emails == {"a@x", "b@x"}

\* Well-formed 24-hex-digit ids; any other string makes new ObjectId(id) throw.
ObjectIds == {"65a1", "65a2", "65a3"}
MalformedId == "not-an-object-id"
RequestIds == ObjectIds \cup {MalformedId}
GateIds == {"65a1", "65a2"}
GateRequestIds == GateIds \cup {MalformedId}

UserFields == {"email", "role", "displayName", "phoneNumber", "country"}

EmptyUser == [f \in UserFields |-> Absent]

\* Bodies of POST /users and PUT /users drawn by the specifications.
AccountBodies ==
    { [EmptyUser EXCEPT !.email = "a@x", !.role = "admin"],
      [EmptyUser EXCEPT !.email = "a@x", !.role = "user"],
      [EmptyUser EXCEPT !.email = "b@x"] }

ContactBodies ==
    { [EmptyUser EXCEPT !.email = e, !.role = r, !.phoneNumber = p] :
        e \in Emails, r \in {Absent, "admin", "user"}, p \in {Absent, "", "555"} }

RoleBodies ==
    { [EmptyUser EXCEPT !.email = e, !.role = r] : e \in Emails, r \in {Absent, "admin"} }

\* Bodies of POST /users/:email.
NoProfile == [displayName |-> Absent, phoneNumber |-> Absent, country |-> Absent]

PhoneBodies ==
    { [NoProfile EXCEPT !.phoneNumber = p] : p \in {Absent, "", "555"} }

ProfileBodies ==
    { NoProfile,
      [displayName |-> "", phoneNumber |-> "", country |-> ""],
      [NoProfile EXCEPT !.displayName = "Dee"],
      [NoProfile EXCEPT !.phoneNumber = "777"],
      [NoProfile EXCEPT !.country = "BD"],
      [displayName |-> "Dee", phoneNumber |-> "", country |-> "BD"],
      [displayName |-> "Dee", phoneNumber |-> "777", country |-> "BD"] }

\* Bodies of POST /testimonial: free-form, possibly carrying an approved field.
TestimonialBodies == { [approved |-> a] : a \in {Absent, "true", "false"} }

\* Bodies of POST /makeproposal: the e-mail field and whether a file is attached.
ProposalBodies == { [email |-> "a@x", file |-> TRUE], [email |-> "b@x", file |-> FALSE] }

(***************************************************************************)
(* Responses.                                                              *)
(***************************************************************************)
NoResponse ==
    [op |-> "none", status |-> 0, message |-> "", admin |-> FALSE,
     phoneNumber |-> Absent, docs |-> <<>>]

Reply(op, status, message) ==
    [NoResponse EXCEPT !.op = op, !.status = status, !.message = message]

ReplyDocs(op, docs) ==
    [NoResponse EXCEPT !.op = op, !.status = 200, !.docs = docs]

InternalServerError(op) == Reply(op, 500, "Internal server error")

(***************************************************************************)
(* The MongoDB driver calls the handlers make.                             *)
(***************************************************************************)
\* findOne({email}): the position of the first matching document, 0 for null.
FindOne(coll, email) ==
    IF \E i \in 1..Len(coll) : coll[i].email = email
    THEN CHOOSE i \in 1..Len(coll) :
            /\ coll[i].email = email
            /\ \A j \in 1..(i - 1) : coll[j].email # email
    ELSE 0

\* A slip: any user on record passes the check, whatever the role.
IsAdmin_UserExists(coll, email) == FindOne(coll, email) # 0

\* user?.role === "admin"
IsAdmin(coll, email) ==
    LET i == FindOne(coll, email) IN i # 0 /\ coll[i].role = "admin"

\* $set: every field the update document carries replaces the stored one.
ApplySet(doc, fields) ==
    [f \in DOMAIN doc |->
        IF f \in DOMAIN fields /\ fields[f] # Absent THEN fields[f] ELSE doc[f]]

\* usersCollection.updateOne({email}, {$set: fields}, {upsert: true})
UpdateOneUser(coll, email, fields) ==
    LET i == FindOne(coll, email) IN
    IF i # 0
    THEN LET doc == ApplySet(coll[i], fields) IN
         [coll |-> [coll EXCEPT ![i] = doc],
          modifiedCount |-> IF doc = coll[i] THEN 0 ELSE 1,
          upsertedCount |-> 0]
    ELSE [coll |-> Append(coll, ApplySet([EmptyUser EXCEPT !.email = email], fields)),
          modifiedCount |-> 0,
          upsertedCount |-> 1]

(***************************************************************************)
(* Startup.                                                                *)
(***************************************************************************)
\* The API routes exist once run() has got past client.connect().
RoutesRegistered == dbState = "connected"

ConnectResolves ==
    /\ dbState = "connecting"
    /\ dbState' = "connected"
    /\ UNCHANGED <<listening, collections, res>>

ConnectRejects ==
    /\ dbState = "connecting"
    /\ dbState' = "failed"
    /\ UNCHANGED <<listening, collections, res>>

(***************************************************************************)
(* User endpoints.                                                         *)
(***************************************************************************)
\* POST /users
CreateUser(user) ==
    /\ RoutesRegistered
    /\ Len(usersCollection) < MaxUsers
    /\ usersCollection' = Append(usersCollection, user)
    /\ res' = Reply("POST /users", 200, "acknowledged")
    /\ UNCHANGED <<dbState, listening, testimonialCollection, proposalsCollection>>

\* PUT /users
UpsertUser(user) ==
    /\ RoutesRegistered
    /\ LET result == UpdateOneUser(usersCollection, user.email, user) IN
        /\ Len(result.coll) <= MaxUsers
        /\ usersCollection' = result.coll
        /\ res' = Reply("PUT /users", 200, "acknowledged")
    /\ UNCHANGED <<dbState, listening, testimonialCollection, proposalsCollection>>

\* A slip: a missing user answered as not found.
GetAdminFlag_NotFound(email) ==
    /\ RoutesRegistered
    /\ res' = IF FindOne(usersCollection, email) = 0
              THEN Reply("GET /users/:email", 404, "User not found")
              ELSE [NoResponse EXCEPT !.op = "GET /users/:email", !.status = 200,
                                      !.admin = IsAdmin(usersCollection, email)]
    /\ UNCHANGED <<dbState, listening, collections>>

\* GET /users/:email
GetAdminFlag(email) ==
    /\ RoutesRegistered
    /\ res' = [NoResponse EXCEPT !.op = "GET /users/:email", !.status = 200,
                                 !.admin = IsAdmin(usersCollection, email)]
    /\ UNCHANGED <<dbState, listening, collections>>

\* A slip: one message for both 404 outcomes.
GetPhone_OneMessage(email) ==
    /\ RoutesRegistered
    /\ LET i == FindOne(usersCollection, email) IN
        res' = IF i # 0 /\ Truthy(usersCollection[i].phoneNumber)
               THEN [NoResponse EXCEPT !.op = "GET /users/phone/:email", !.status = 200,
                                       !.phoneNumber = usersCollection[i].phoneNumber]
               ELSE Reply("GET /users/phone/:email", 404, "User not found")
    /\ UNCHANGED <<dbState, listening, collections>>

\* GET /users/phone/:email
GetPhone(email) ==
    /\ RoutesRegistered
    /\ LET i == FindOne(usersCollection, email) IN
        res' = IF i = 0
               THEN Reply("GET /users/phone/:email", 404, "User not found")
               ELSE IF Truthy(usersCollection[i].phoneNumber)
               THEN [NoResponse EXCEPT !.op = "GET /users/phone/:email", !.status = 200,
                                       !.phoneNumber = usersCollection[i].phoneNumber]
               ELSE Reply("GET /users/phone/:email", 404,
                          "User does not have a phone number")
    /\ UNCHANGED <<dbState, listening, collections>>

\* A slip: only a missing field is skipped, a falsy one is written.
UpdateFields_OnlyUndefinedSkipped(body) ==
    [f \in {"displayName", "phoneNumber", "country"} |->
        body[f]]

\* if (displayName) updateFields.displayName = displayName; ...
UpdateFields(body) ==
    [f \in {"displayName", "phoneNumber", "country"} |->
        IF Truthy(body[f]) THEN body[f] ELSE Absent]

\* A slip: success is reported by the request, not by the counts.
UpdateProfile_ReportsRequest(email, body) ==
    /\ RoutesRegistered
    /\ LET result == UpdateOneUser(usersCollection, email, UpdateFields(body)) IN
        /\ Len(result.coll) <= MaxUsers
        /\ usersCollection' = result.coll
        /\ res' = Reply("POST /users/:email", 200, "User updated successfully")
    /\ UNCHANGED <<dbState, listening, testimonialCollection, proposalsCollection>>

\* POST /users/:email
UpdateProfile(email, body) ==
    /\ RoutesRegistered
    /\ LET result == UpdateOneUser(usersCollection, email, UpdateFields(body)) IN
        /\ Len(result.coll) <= MaxUsers
        /\ usersCollection' = result.coll
        /\ res' = IF result.modifiedCount > 0 \/ result.upsertedCount > 0
                  THEN Reply("POST /users/:email", 200, "User updated successfully")
                  ELSE Reply("POST /users/:email", 200, "No changes made to the user")
    /\ UNCHANGED <<dbState, listening, testimonialCollection, proposalsCollection>>

(***************************************************************************)
(* Testimonial endpoints.                                                  *)
(***************************************************************************)
\* The position of the testimonial whose _id is id, 0 when there is none.
FindById(coll, id) ==
    IF \E i \in 1..Len(coll) : coll[i]._id = id
    THEN CHOOSE i \in 1..Len(coll) : coll[i]._id = id
    ELSE 0

\* new ObjectId(id) throws on a string that is no 24-hex-digit id.
ObjectIdThrows(id) == id \notin ObjectIds

\* find({ approved: { $exists: false } })
IsPending(doc) == doc.approved = Absent

\* A slip: the update without upsert.
ApproveOne_NoUpsert(coll, id) ==
    LET i == FindById(coll, id) IN
    IF i # 0
    THEN [coll |-> [coll EXCEPT ![i].approved = "true"],
          modifiedCount |-> IF coll[i].approved = "true" THEN 0 ELSE 1,
          upsertedCount |-> 0]
    ELSE [coll |-> coll, modifiedCount |-> 0, upsertedCount |-> 0]

\* testimonialCollection.updateOne({_id}, {$set: {approved: true}}, {upsert: true})
ApproveOne(coll, id) ==
    LET i == FindById(coll, id) IN
    IF i # 0
    THEN [coll |-> [coll EXCEPT ![i].approved = "true"],
          modifiedCount |-> IF coll[i].approved = "true" THEN 0 ELSE 1,
          upsertedCount |-> 0]
    ELSE [coll |-> Append(coll, [_id |-> id, approved |-> "true"]),
          modifiedCount |-> 0,
          upsertedCount |-> 1]

\* testimonialCollection.deleteOne({_id})
DeleteOne(coll, id) ==
    LET i == FindById(coll, id) IN
    IF i # 0
    THEN [coll |-> SubSeq(coll, 1, i - 1) \o SubSeq(coll, i + 1, Len(coll)),
          deletedCount |-> 1]
    ELSE [coll |-> coll, deletedCount |-> 0]

\* GET /testimonialapprove/:email
ListPendingForApproval(email) ==
    /\ RoutesRegistered
    /\ res' = IF IsAdmin(usersCollection, email)
              THEN ReplyDocs("GET /testimonialapprove/:email",
                             SelectSeq(testimonialCollection, IsPending))
              ELSE Reply("GET /testimonialapprove/:email", 403, "Forbidden")
    /\ UNCHANGED <<dbState, listening, collections>>

\* PUT /testimonialapprove
Approve(id, user_email) ==
    /\ RoutesRegistered
    /\ IF ~IsAdmin(usersCollection, user_email)
       THEN /\ res' = Reply("PUT /testimonialapprove", 403, "Forbidden")
            /\ UNCHANGED testimonialCollection
       ELSE IF ObjectIdThrows(id)
       THEN /\ res' = InternalServerError("PUT /testimonialapprove")
            /\ UNCHANGED testimonialCollection
       ELSE LET result == ApproveOne(testimonialCollection, id) IN
            /\ Len(result.coll) <= MaxTestimonials
            /\ testimonialCollection' = result.coll
            /\ res' = IF result.upsertedCount = 1 \/ result.modifiedCount = 1
                      THEN ReplyDocs("PUT /testimonialapprove", result.coll)
                      ELSE Reply("PUT /testimonialapprove", 404, "Testimonial not found.")
    /\ UNCHANGED <<dbState, listening, usersCollection, proposalsCollection>>

\* A slip: the list is returned whether or not a document was deleted.
DeleteTestimonial_No404(id, user_email) ==
    /\ RoutesRegistered
    /\ IF ~IsAdmin(usersCollection, user_email)
       THEN /\ res' = Reply("DELETE /testimonialapprove", 403, "Forbidden")
            /\ UNCHANGED testimonialCollection
       ELSE IF ObjectIdThrows(id)
       THEN /\ res' = InternalServerError("DELETE /testimonialapprove")
            /\ UNCHANGED testimonialCollection
       ELSE LET result == DeleteOne(testimonialCollection, id) IN
            /\ testimonialCollection' = result.coll
            /\ res' = ReplyDocs("DELETE /testimonialapprove", result.coll)
    /\ UNCHANGED <<dbState, listening, usersCollection, proposalsCollection>>

\* DELETE /testimonialapprove
DeleteTestimonial(id, user_email) ==
    /\ RoutesRegistered
    /\ IF ~IsAdmin(usersCollection, user_email)
       THEN /\ res' = Reply("DELETE /testimonialapprove", 403, "Forbidden")
            /\ UNCHANGED testimonialCollection
       ELSE IF ObjectIdThrows(id)
       THEN /\ res' = InternalServerError("DELETE /testimonialapprove")
            /\ UNCHANGED testimonialCollection
       ELSE LET result == DeleteOne(testimonialCollection, id) IN
            /\ testimonialCollection' = result.coll
            /\ res' = IF result.deletedCount = 1
                      THEN ReplyDocs("DELETE /testimonialapprove", result.coll)
                      ELSE Reply("DELETE /testimonialapprove", 404, "Testimonial not found.")
    /\ UNCHANGED <<dbState, listening, usersCollection, proposalsCollection>>

\* POST /testimonial; id is the _id the driver generates for the new document.
CreateTestimonial(testimonial, id) ==
    /\ RoutesRegistered
    /\ Len(testimonialCollection) < MaxTestimonials
    /\ FindById(testimonialCollection, id) = 0
    /\ testimonialCollection' =
          Append(testimonialCollection, [_id |-> id, approved |-> testimonial.approved])
    /\ res' = Reply("POST /testimonial", 200, "acknowledged")
    /\ UNCHANGED <<dbState, listening, usersCollection, proposalsCollection>>

(***************************************************************************)
(* Proposal endpoints.                                                     *)
(***************************************************************************)
\* POST /makeproposal
MakeProposal(body) ==
    /\ RoutesRegistered
    /\ Len(proposalsCollection) < MaxProposals
    /\ proposalsCollection' =
          Append(proposalsCollection,
                 [email |-> body.email,
                  filePath |-> IF body.file THEN "uploads/file" ELSE "null"])
    /\ res' = Reply("POST /makeproposal", 200, "success")
    /\ UNCHANGED <<dbState, listening, usersCollection, testimonialCollection>>

\* GET /makeproposal/:email
ListByEmail(email) ==
    /\ RoutesRegistered
    /\ LET Mine(doc) == doc.email = email IN
        res' = ReplyDocs("GET /makeproposal/:email", SelectSeq(proposalsCollection, Mine))
    /\ UNCHANGED <<dbState, listening, collections>>

\* GET /makeproposal?email=
ListAll(userEmail) ==
    /\ RoutesRegistered
    /\ res' = IF IsAdmin(usersCollection, userEmail)
              THEN ReplyDocs("GET /makeproposal", proposalsCollection)
              ELSE Reply("GET /makeproposal", 403, "Access denied. User is not an admin.")
    /\ UNCHANGED <<dbState, listening, collections>>

(***************************************************************************)
(* Routes outside run(), and requests no route matches.                    *)
(***************************************************************************)
ApiOps ==
    {"POST /users", "PUT /users", "GET /users/:email", "GET /users/phone/:email",
     "POST /users/:email", "GET /testimonialapprove/:email", "PUT /testimonialapprove",
     "DELETE /testimonialapprove", "POST /testimonial", "POST /makeproposal",
     "GET /makeproposal/:email", "GET /makeproposal"}

\* GET /
Root ==
    /\ listening
    /\ res' = Reply("GET /", 200, "Digital Site Pro Server Is Online")
    /\ UNCHANGED <<dbState, listening, collections>>

\* A request to an API path while run() has registered no route for it: Express
\* finds no handler and answers with its default 404.
Unrouted(op) ==
    /\ listening
    /\ ~RoutesRegistered
    /\ res' = Reply(op, 404, "Cannot " \o op)
    /\ UNCHANGED <<dbState, listening, collections>>

\* The module body: run() is called and suspends at client.connect(); app.listen().
Load ==
    /\ dbState = "idle"
    /\ dbState' = "connecting"
    /\ listening' = TRUE
    /\ UNCHANGED <<collections, res>>

(***************************************************************************)
(* Specifications.                                                         *)
(***************************************************************************)
\* The server in operation: connected, routes registered, collections empty.
Init ==
    /\ dbState = "connected"
    /\ listening = TRUE
    /\ usersCollection = <<>>
    /\ testimonialCollection = <<>>
    /\ proposalsCollection = <<>>
    /\ res = NoResponse

\* Testimonial moderation, with accounts that carry an e-mail and a role.
Next ==
    \/ \E user \in AccountBodies : CreateUser(user)
    \/ \E user \in AccountBodies : UpsertUser(user)
    \/ \E email \in Emails : ListPendingForApproval(email)
    \/ \E id \in RequestIds, email \in Emails : Approve(id, email)
    \/ \E id \in RequestIds, email \in Emails : DeleteTestimonial(id, email)
    \/ \E body \in TestimonialBodies, id \in ObjectIds : CreateTestimonial(body, id)

Spec == Init /\ [][Next]_vars

\* The admin-gated endpoints over all three collections.
GateNext ==
    \/ \E user \in AccountBodies : CreateUser(user)
    \/ \E user \in AccountBodies : UpsertUser(user)
    \/ \E body \in TestimonialBodies, id \in GateIds : CreateTestimonial(body, id)
    \/ \E body \in ProposalBodies : MakeProposal(body)
    \/ \E email \in Emails : ListPendingForApproval(email)
    \/ \E id \in GateRequestIds, email \in Emails : Approve(id, email)
    \/ \E id \in GateRequestIds, email \in Emails : DeleteTestimonial(id, email)
    \/ \E email \in Emails : ListByEmail(email)
    \/ \E email \in Emails : ListAll(email)

GateSpec == Init /\ [][GateNext]_vars

\* Accounts with roles and phone numbers, read back by the two GET endpoints.
UserNext ==
    \/ \E user \in ContactBodies : CreateUser(user)
    \/ \E user \in ContactBodies : UpsertUser(user)
    \/ \E email \in Emails, body \in PhoneBodies : UpdateProfile(email, body)
    \/ \E email \in Emails : GetAdminFlag(email)
    \/ \E email \in Emails : GetPhone(email)

UserSpec == Init /\ [][UserNext]_vars

\* Profile updates over accounts with and without the admin role.
ProfileNext ==
    \/ \E user \in RoleBodies : CreateUser(user)
    \/ \E user \in RoleBodies : UpsertUser(user)
    \/ \E email \in Emails, body \in ProfileBodies : UpdateProfile(email, body)
    \/ \E email \in Emails : GetAdminFlag(email)

ProfileSpec == Init /\ [][ProfileNext]_vars

\* The process from the moment the module is loaded.
StartupInit ==
    /\ dbState = "idle"
    /\ listening = FALSE
    /\ usersCollection = <<>>
    /\ testimonialCollection = <<>>
    /\ proposalsCollection = <<>>
    /\ res = NoResponse

StartupNext ==
    \/ Load
    \/ ConnectResolves
    \/ ConnectRejects
    \/ Root
    \/ \E op \in ApiOps : Unrouted(op)
    \/ \E user \in AccountBodies : CreateUser(user)
    \/ \E email \in Emails : GetAdminFlag(email)
    \/ \E body \in TestimonialBodies, id \in ObjectIds : CreateTestimonial(body, id)
    \/ \E email \in Emails : ListByEmail(email)

StartupSpec == StartupInit /\ [][StartupNext]_vars
(***************************************************************************)
(* Properties.  They speak of the stored documents directly: the user      *)
(* document of an e-mail is the earliest stored document carrying it.      *)
(***************************************************************************)
HasUser(email) ==
    \E i \in DOMAIN usersCollection : usersCollection[i].email = email

StoredUserAt(email) ==
    LET S == {i \in DOMAIN usersCollection : usersCollection[i].email = email}
    IN CHOOSE i \in S : \A j \in S : i <= j

StoredRoleIsAdmin(email) ==
    HasUser(email) /\ usersCollection[StoredUserAt(email)].role = "admin"

HasTestimonial(id) ==
    \E i \in DOMAIN testimonialCollection : testimonialCollection[i]._id = id

Without(coll, id) ==
    LET Other(doc) == doc._id # id IN SelectSeq(coll, Other)

ProfileFields == {"displayName", "phoneNumber", "country"}

\* C1: a request to an admin-gated endpoint whose requester has no user document,
\* or a user document whose role is not "admin", is answered 403 and changes no
\* document of any collection, whatever the id it carries.
C1_NonAdminForbidden ==
    [][\A email \in Emails :
        ~StoredRoleIsAdmin(email) =>
            /\ ListPendingForApproval(email) \/ ListAll(email)
                  => res'.status = 403 /\ UNCHANGED collections
            /\ \A id \in GateRequestIds :
                  Approve(id, email) \/ DeleteTestimonial(id, email)
                      => res'.status = 403 /\ UNCHANGED collections]_vars

\* C1 witness: a non-admin's approve was refused while testimonials were stored.
C1_Witness ==
    /\ res.op = "PUT /testimonialapprove"
    /\ res.status = 403
    /\ Len(testimonialCollection) > 0
    /\ Len(proposalsCollection) > 0
    /\ \E email \in Emails : HasUser(email) /\ ~StoredRoleIsAdmin(email)

\* C2: getAdminFlag answers 200 {admin: b}, b being true exactly when the stored
\* user document of the e-mail has role "admin" (false when there is none), and
\* right after upsert(user) the stored role of user.email is the role upserted.
C2_AdminFlagReflectsRole ==
    [][/\ \A email \in Emails :
            GetAdminFlag(email) =>
                /\ res'.status = 200
                /\ res'.admin = StoredRoleIsAdmin(email)
                /\ UNCHANGED collections
       /\ \A user \in ContactBodies :
            UpsertUser(user) /\ user.role # Absent =>
                (StoredRoleIsAdmin(user.email)' = (user.role = "admin"))]_vars

\* C2 witness: the flag was answered false for an e-mail with no user document
\* while another e-mail is stored as admin.
C2_Witness ==
    /\ res.op = "GET /users/:email"
    /\ res.status = 200
    /\ res.admin = FALSE
    /\ \E email \in Emails : ~HasUser(email)
    /\ \E email \in Emails : StoredRoleIsAdmin(email)

\* C3 as stated: updateProfile with an empty body changes nothing and reports the
\* no-op message for every e-mail, stored or not.
C3_EmptyBodyNeverChanges ==
    [][\A email \in Emails :
        UpdateProfile(email, NoProfile) =>
            /\ UNCHANGED usersCollection
            /\ res'.message = "No changes made to the user"]_vars

\* C3 amended: updateProfile with an empty body changes nothing and reports the
\* no-op message when a user document of the e-mail exists; when none exists it
\* inserts a document holding only the e-mail and reports "User updated
\* successfully".
C3_EmptyBodyUpserts ==
    [][\A email \in Emails :
        UpdateProfile(email, NoProfile) =>
            /\ res'.status = 200
            /\ UNCHANGED <<testimonialCollection, proposalsCollection>>
            /\ IF HasUser(email)
               THEN /\ UNCHANGED usersCollection
                    /\ res'.message = "No changes made to the user"
               ELSE /\ usersCollection' =
                          Append(usersCollection, [EmptyUser EXCEPT !.email = email])
                    /\ res'.message = "User updated successfully"]_vars

\* C3 witness: a profile update was reported as a no-op over a stored user.
C3_Witness ==
    /\ res.op = "POST /users/:email"
    /\ res.message = "No changes made to the user"
    /\ Len(usersCollection) > 0

\* C4 as stated: once the connection has failed, the listener is up and every
\* request to an API endpoint is answered 500 {message: "Internal server error"}.
C4_FailedConnectAnswers500 ==
    [][(dbState = "failed" /\ res' # res /\ res'.op \in ApiOps) =>
            /\ listening'
            /\ res'.status = 500
            /\ res'.message = "Internal server error"]_vars

\* C5 as stated: an admin's delete with an id matching no testimonial is answered
\* 404 and leaves the collection as it was; with a matching id that one document
\* is removed and the 200 response is the remaining list.
C5_DeleteByAnyId ==
    [][\A email \in Emails, id \in RequestIds :
        StoredRoleIsAdmin(email) /\ DeleteTestimonial(id, email) =>
            IF HasTestimonial(id)
            THEN /\ testimonialCollection' = Without(testimonialCollection, id)
                 /\ Len(testimonialCollection') = Len(testimonialCollection) - 1
                 /\ res'.status = 200
                 /\ res'.docs = testimonialCollection'
            ELSE /\ UNCHANGED testimonialCollection
                 /\ res'.status = 404]_vars

\* C5 amended: as stated for a well-formed id; a malformed id is answered 500
\* and leaves the collection as it was.
C5_DeleteByObjectId ==
    [][\A email \in Emails, id \in RequestIds :
        StoredRoleIsAdmin(email) /\ DeleteTestimonial(id, email) =>
            /\ UNCHANGED <<usersCollection, proposalsCollection>>
            /\ IF id \notin ObjectIds
               THEN /\ UNCHANGED testimonialCollection
                    /\ res'.status = 500
               ELSE IF HasTestimonial(id)
               THEN /\ testimonialCollection' = Without(testimonialCollection, id)
                    /\ Len(testimonialCollection') = Len(testimonialCollection) - 1
                    /\ res'.status = 200
                    /\ res'.docs = testimonialCollection'
               ELSE /\ UNCHANGED testimonialCollection
                    /\ res'.status = 404]_vars

\* C5 witness: a delete was answered 404 while testimonials were stored.
C5_Witness ==
    /\ res.op = "DELETE /testimonialapprove"
    /\ res.status = 404
    /\ Len(testimonialCollection) > 0

\* C6 as stated: an admin's approve with an id matching no testimonial creates a
\* document with that id and approved = true, leaves the others unchanged and is
\* answered 200 with the full list.
C6_ApproveByAnyIdCreates ==
    [][\A email \in Emails, id \in RequestIds :
        (StoredRoleIsAdmin(email) /\ ~HasTestimonial(id) /\ Approve(id, email)) =>
            /\ testimonialCollection' =
                  Append(testimonialCollection, [_id |-> id, approved |-> "true"])
            /\ res'.status = 200
            /\ res'.docs = testimonialCollection']_vars

\* C6 amended: as stated for a well-formed id; a malformed id is answered 500
\* and creates nothing.
C6_ApproveByObjectIdCreates ==
    [][\A email \in Emails, id \in RequestIds :
        (StoredRoleIsAdmin(email) /\ ~HasTestimonial(id) /\ Approve(id, email)) =>
            /\ UNCHANGED <<usersCollection, proposalsCollection>>
            /\ IF id \in ObjectIds
               THEN /\ testimonialCollection' =
                          Append(testimonialCollection, [_id |-> id, approved |-> "true"])
                    /\ res'.status = 200
                    /\ res'.docs = testimonialCollection'
               ELSE /\ UNCHANGED testimonialCollection
                    /\ res'.status = 500]_vars

\* C6 witness: an approve answered with a list whose last document is approved
\* while an earlier one is still pending.
C6_Witness ==
    /\ res.op = "PUT /testimonialapprove"
    /\ res.status = 200
    /\ Len(testimonialCollection) = 2
    /\ res.docs = testimonialCollection
    /\ testimonialCollection[1].approved = Absent
    /\ testimonialCollection[2].approved = "true"

\* C7: getPhone answers 200 {phoneNumber} exactly when the user document exists
\* and has a phone number, 404 "User not found" when there is no user document,
\* 404 "User does not have a phone number" when the document has none, and
\* changes no state.
C7_GetPhoneOutcomes ==
    [][\A email \in Emails :
        GetPhone(email) =>
            /\ UNCHANGED collections
            /\ IF ~HasUser(email)
               THEN res'.status = 404 /\ res'.message = "User not found"
               ELSE LET phone == usersCollection[StoredUserAt(email)].phoneNumber IN
                    IF phone \in {Absent, ""}
                    THEN /\ res'.status = 404
                         /\ res'.message = "User does not have a phone number"
                    ELSE /\ res'.status = 200
                         /\ res'.phoneNumber = phone]_vars

\* C7 witness: the no-phone answer was given while another user has a phone.
C7_Witness ==
    /\ res.op = "GET /users/phone/:email"
    /\ res.message = "User does not have a phone number"
    /\ \E i \in DOMAIN usersCollection : usersCollection[i].phoneNumber = "555"

\* C8 as stated: approve never answers 404.
C8_ApproveNeverNotFound ==
    ~(res.op = "PUT /testimonialapprove" /\ res.status = 404)

\* C9 as stated: whatever the body, the document POST /testimonial stores has no
\* approved field, so it is among the pending ones.
C9_CreatedIsPending ==
    [][\A body \in TestimonialBodies, id \in ObjectIds :
        CreateTestimonial(body, id) =>
            /\ Len(testimonialCollection') = Len(testimonialCollection) + 1
            /\ testimonialCollection'[Len(testimonialCollection')].approved = Absent]_vars

\* C10: updateProfile writes exactly the truthy ones of displayName, phoneNumber
\* and country into the user document of the e-mail; every other field of it and
\* every other document keep their values, so the admin flag of every stored
\* user stays what it was.
C10_UpdateProfileFrame ==
    [][\A email \in Emails, body \in ProfileBodies :
        UpdateProfile(email, body) =>
            /\ UNCHANGED <<testimonialCollection, proposalsCollection>>
            /\ \A i \in DOMAIN usersCollection :
                  /\ i \in DOMAIN usersCollection'
                  /\ \A f \in UserFields :
                        usersCollection'[i][f] =
                            IF /\ HasUser(email)
                               /\ i = StoredUserAt(email)
                               /\ f \in ProfileFields
                               /\ body[f] \notin {Absent, ""}
                            THEN body[f]
                            ELSE usersCollection[i][f]
            /\ HasUser(email) => Len(usersCollection') = Len(usersCollection)
            /\ \A e \in Emails :
                  HasUser(e) => (StoredRoleIsAdmin(e)' = StoredRoleIsAdmin(e))]_vars

\* C10 witness: an update went through on an admin's document that keeps a field
\* the update did not carry, beside another user's document.
C10_Witness ==
    /\ res.op = "POST /users/:email"
    /\ res.message = "User updated successfully"
    /\ Len(usersCollection) = 2
    /\ usersCollection[1].role = "admin"
    /\ usersCollection[1].displayName = "Dee"
    /\ usersCollection[1].phoneNumber = "777"
    /\ usersCollection[1].country = Absent
    /\ usersCollection[2].email # usersCollection[1].email
====
